---- MODULE Spec2Model ----
(***************************************************************************)
(* shader-prepper: the include crawler (scanner.rs) as a state machine.    *)
(*                                                                         *)
(* A text is a sequence of one-character strings.  The recursion of        *)
(* include_child / process_input is an explicit stack of scanner frames;   *)
(* one action is one iteration of a loop of the scanner or one call.       *)
(***************************************************************************)
EXTENDS Integers, Sequences, FiniteSets, TLC

VARIABLES
    provider,        \* the user's IncludeProvider: resolve_path and get_include
    file_path,       \* process_file's entry path
    stack,           \* the active Scanner objects, the root scanner first
    prior_includes,  \* the "in progress" set shared by all scanners
    skip_includes,   \* the once-set shared by all scanners
    status,          \* "running" | "raising" | "ok" | "err"
    error,           \* the PrepperError being propagated or returned
    result,          \* the chunks process_file returned
    calls,           \* history: the provider calls made so far, in order
    source_chunks,   \* compile_shader: the chunks it is given
    sources,         \* compile_shader: the strings for the compiler
    file_and_line_offset,  \* compile_shader: file and line_offset per chunk
    compiler_output, \* compile_shader: the log compiler_fn returned
    log_str,         \* compile_shader: the log between the two replace_all
    pretty_log,      \* compile_shader: the log it returns
    gl_pc            \* compile_shader: the statement it is at

gl_vars == <<source_chunks, sources, file_and_line_offset, compiler_output,
             log_str, pretty_log, gl_pc>>

vars == <<provider, file_path, stack, prior_includes, skip_includes,
          status, error, result, calls, gl_vars>>

(***************************************************************************)
(* Characters                                                              *)
(***************************************************************************)
NL == "\n"
CR == "\r"
BACKSLASH == "\\"

is_whitespace(c) == c \in {" ", "\t", "\n", "\r"}

is_alphabetic(c) ==
    c \in {"a", "b", "c", "d", "e", "f", "g", "h", "i", "j", "k", "l", "m",
           "n", "o", "p", "q", "r", "s", "t", "u", "v", "w", "x", "y", "z",
           "A", "B", "C", "X", "Y"}

INCLUDE == <<"i", "n", "c", "l", "u", "d", "e">>
PRAGMA == <<"p", "r", "a", "g", "m", "a">>
ONCE == <<"o", "n", "c", "e">>

(***************************************************************************)
(* LocationTracking: a cursor over the input that pairs every character    *)
(* with its line.  pos is the index of the next character to yield.        *)
(***************************************************************************)
None == [some |-> FALSE, line |-> 0, c |-> ""]
Some(line, c) == [some |-> TRUE, line |-> line, c |-> c]

LocationTracking(input) == [pos |-> 1, line |-> 1]

\* Iterator::next of LocationTracking: the item yielded
next_item(input, it) ==
    IF it.pos <= Len(input) THEN Some(it.line, input[it.pos]) ELSE None

\* The cursor that counts a newline when it comes to it, not behind it.
next_iter_early(input, it) ==
    IF it.pos <= Len(input)
    THEN [pos |-> it.pos + 1,
          line |-> IF it.pos < Len(input) /\ input[it.pos + 1] = NL
                   THEN it.line + 1 ELSE it.line]
    ELSE it

\* Iterator::next of LocationTracking: the cursor afterwards
next_iter(input, it) ==
    IF it.pos <= Len(input)
    THEN [pos |-> it.pos + 1,
          line |-> IF input[it.pos] = NL THEN it.line + 1 ELSE it.line]
    ELSE it

peek_char(input, it) == next_item(input, it)
read_char(input, it) == next_iter(input, it)

(***************************************************************************)
(* skip_block_comment: called after the opening slash-star was consumed;   *)
(* returns the whitespace that replaces the rest of the comment.           *)
(***************************************************************************)
RECURSIVE skip_block_comment_loop(_, _, _)
\* The loop with a closing test that does not look for the star first.
skip_block_comment_iter_slash(input, it, s) ==
    LET x == next_item(input, it)
        it1 == next_iter(input, it)
    IN  IF ~x.some THEN [s |-> s, it |-> it]
        ELSE IF x.c = "/" THEN [s |-> Append(s, " "), it |-> it1]
        ELSE IF x.c = NL
        THEN skip_block_comment_loop(input, it1, Append(s, NL))
        ELSE skip_block_comment_loop(input, it1, Append(s, " "))

skip_block_comment_iter(input, it, s) ==
    LET x == next_item(input, it)
        it1 == next_iter(input, it)
    IN  IF ~x.some THEN [s |-> s, it |-> it]
        ELSE IF x.c = "*"
        THEN IF peek_char(input, it1).some /\ peek_char(input, it1).c = "/"
             THEN [s |-> s \o <<" ", " ">>, it |-> next_iter(input, it1)]
             ELSE skip_block_comment_loop(input, it1, Append(s, " "))
        ELSE IF x.c = NL
        THEN skip_block_comment_loop(input, it1, Append(s, NL))
        ELSE skip_block_comment_loop(input, it1, Append(s, " "))

\* the while loop: its variables hold values when an iteration starts
skip_block_comment_loop(input, it, s) ==
    CHOOSE r \in {skip_block_comment_iter(input, i, t) : i \in {it}, t \in {s}} :
        TRUE

skip_block_comment(input, it) == skip_block_comment_loop(input, it, <<>>)

(***************************************************************************)
(* peek_preprocessor_ident: scans an identifier on a cloned cursor.        *)
(* ok = FALSE is the None of an unrecognised escape sequence.              *)
(***************************************************************************)
RECURSIVE peek_preprocessor_ident_loop(_, _, _)
\* The loop without the continuation that ends in CR LF.
peek_preprocessor_ident_iter_unix(input, it, token) ==
    LET x == peek_char(input, it)
        it1 == next_iter(input, it)
        y == next_item(input, it1)
        it2 == next_iter(input, it1)
        done == [ok |-> TRUE, token |-> token, it |-> it]
    IN  IF ~x.some THEN done
        ELSE IF x.c = NL \/ x.c = CR THEN done
        ELSE IF is_alphabetic(x.c)
        THEN peek_preprocessor_ident_loop(input, it1, Append(token, x.c))
        ELSE IF is_whitespace(x.c)
        THEN IF token # <<>> THEN done
             ELSE peek_preprocessor_ident_loop(input, it1, token)
        ELSE IF x.c = BACKSLASH
        THEN IF y.some /\ y.c = NL
             THEN peek_preprocessor_ident_loop(input, it2, token)
             ELSE [ok |-> FALSE, token |-> <<>>, it |-> it]
        ELSE IF x.c = "/"
        THEN IF token # <<>> THEN done
             ELSE IF y.some /\ y.c = "*"
             THEN peek_preprocessor_ident_loop(
                      input, skip_block_comment(input, it2).it, token)
             ELSE done
        ELSE done

peek_preprocessor_ident_iter(input, it, token) ==
    LET x == peek_char(input, it)
        it1 == next_iter(input, it)
        y == next_item(input, it1)
        it2 == next_iter(input, it1)
        z == peek_char(input, it2)
        done == [ok |-> TRUE, token |-> token, it |-> it]
    IN  IF ~x.some THEN done
        ELSE IF x.c = NL \/ x.c = CR THEN done
        ELSE IF is_alphabetic(x.c)
        THEN peek_preprocessor_ident_loop(input, it1, Append(token, x.c))
        ELSE IF is_whitespace(x.c)
        THEN IF token # <<>> THEN done
             ELSE peek_preprocessor_ident_loop(input, it1, token)
        ELSE IF x.c = BACKSLASH
        THEN IF y.some /\ y.c = NL
             THEN peek_preprocessor_ident_loop(input, it2, token)
             ELSE IF y.some /\ y.c = CR /\ z.some /\ z.c = NL
             THEN peek_preprocessor_ident_loop(input, next_iter(input, it2), token)
             ELSE [ok |-> FALSE, token |-> <<>>, it |-> it]
        ELSE IF x.c = "/"
        THEN IF token # <<>> THEN done
             ELSE IF y.some /\ y.c = "*"
             THEN peek_preprocessor_ident_loop(
                      input, skip_block_comment(input, it2).it, token)
             ELSE done
        ELSE done

peek_preprocessor_ident_loop(input, it, token) ==
    CHOOSE r \in {peek_preprocessor_ident_iter(input, i, t) :
                     i \in {it}, t \in {token}} : TRUE

peek_preprocessor_ident(input, it) ==
    peek_preprocessor_ident_loop(input, it, <<>>)

(***************************************************************************)
(* read_string: the include path up to right_delim on the same line.       *)
(***************************************************************************)
RECURSIVE read_string_loop(_, _, _, _)
\* The loop with a backslash that is read alone: the character behind it
\* is read as any other.
read_string_iter_unescaped(input, it, right_delim, s) ==
    LET x == peek_char(input, it)
        it1 == read_char(input, it)
    IN  IF ~x.some THEN [some |-> FALSE, s |-> <<>>, it |-> it]
        ELSE IF x.c = NL THEN [some |-> FALSE, s |-> <<>>, it |-> it]
        ELSE IF x.c = BACKSLASH
        THEN read_string_loop(input, it1, right_delim, s)
        ELSE IF x.c = right_delim
        THEN [some |-> TRUE, s |-> s, it |-> it1]
        ELSE read_string_loop(input, it1, right_delim, Append(s, x.c))

read_string_iter(input, it, right_delim, s) ==
    LET x == peek_char(input, it)
        it1 == read_char(input, it)
    IN  IF ~x.some THEN [some |-> FALSE, s |-> <<>>, it |-> it]
        ELSE IF x.c = NL THEN [some |-> FALSE, s |-> <<>>, it |-> it]
        ELSE IF x.c = BACKSLASH
        THEN read_string_loop(input, read_char(input, it1), right_delim, s)
        ELSE IF x.c = right_delim
        THEN [some |-> TRUE, s |-> s, it |-> it1]
        ELSE read_string_loop(input, it1, right_delim, Append(s, x.c))

read_string_loop(input, it, right_delim, s) ==
    CHOOSE r \in {read_string_iter(input, i, right_delim, t) :
                     i \in {it}, t \in {s}} : TRUE

read_string(input, it, right_delim) ==
    read_string_loop(input, it, right_delim, <<>>)

(***************************************************************************)
(* skip_line: a line comment; returns what it pushes to current_chunk.     *)
(***************************************************************************)
RECURSIVE skip_line_loop(_, _, _)
skip_line_iter(input, it, pushed) ==
    LET x == next_item(input, it)
        it1 == read_char(input, it)
        y == next_item(input, it1)
        it2 == read_char(input, it1)
    IN  IF ~x.some THEN [pushed |-> pushed, it |-> it]
        ELSE IF x.c = NL THEN [pushed |-> Append(pushed, NL), it |-> it1]
        ELSE IF x.c = BACKSLASH
        THEN IF y.some /\ y.c = NL
             THEN skip_line_loop(input, it2, Append(pushed, NL))
             ELSE skip_line_loop(input, it2, pushed)
        ELSE skip_line_loop(input, it1, pushed)

skip_line_loop(input, it, pushed) ==
    CHOOSE r \in {skip_line_iter(input, i, t) : i \in {it}, t \in {pushed}} :
        TRUE

skip_line(input, it) == skip_line_loop(input, it, <<>>)

(***************************************************************************)
(* skip_whitespace_until_eol: ONE iteration of its while loop.  exit is the *)
(* loop ending (end of input or a break); otherwise the loop goes round     *)
(* again with the cursor it.                                                *)
(***************************************************************************)
skip_whitespace_until_eol_iter(input, it) ==
    LET x == peek_char(input, it)
        it1 == read_char(input, it)
        y == peek_char(input, it1)
        it2 == read_char(input, it1)
    IN  IF ~x.some THEN [exit |-> TRUE, it |-> it]
        ELSE IF x.c = NL THEN [exit |-> TRUE, it |-> it]
        ELSE IF is_whitespace(x.c) THEN [exit |-> FALSE, it |-> it1]
        ELSE IF x.c = BACKSLASH
        THEN IF y.some /\ y.c = NL
             THEN [exit |-> FALSE, it |-> it2]
             ELSE [exit |-> TRUE, it |-> it]
        ELSE IF x.c = "/"
        THEN IF y.some /\ y.c = "*"
             THEN [exit |-> FALSE, it |-> skip_block_comment(input, it2).it]
             ELSE [exit |-> FALSE, it |-> it]
        ELSE [exit |-> TRUE, it |-> it]

(***************************************************************************)
(* PrepperError                                                            *)
(***************************************************************************)
NoError ==
    [kind |-> "none", file |-> <<>>, from |-> <<>>, line |-> 0, cause |-> ""]

\* IncludeProviderError without the provider's error in it.
IncludeProviderError_uncaused(file, cause) ==
    [kind |-> "IncludeProviderError", file |-> file, from |-> <<>>,
     line |-> 0, cause |-> ""]

IncludeProviderError(file, cause) ==
    [kind |-> "IncludeProviderError", file |-> file, from |-> <<>>,
     line |-> 0, cause |-> cause]

\* RecursiveInclude with file and from exchanged.
RecursiveInclude_swapped(file, from, from_line) ==
    [kind |-> "RecursiveInclude", file |-> from, from |-> file,
     line |-> from_line, cause |-> ""]

RecursiveInclude(file, from, from_line) ==
    [kind |-> "RecursiveInclude", file |-> file, from |-> from,
     line |-> from_line, cause |-> ""]

ParseError(file, line) ==
    [kind |-> "ParseError", file |-> file, from |-> <<>>, line |-> line,
     cause |-> ""]

(***************************************************************************)
(* IncludeProvider: prov.resolve maps <<raw path, context>> to a           *)
(* ResolvedInclude, prov.files maps a resolved path to its text; a key not  *)
(* in the map is the provider's Err, whose value cause says which of the   *)
(* two calls failed.                                                        *)
(***************************************************************************)
ProviderErr(cause) ==
    [ok |-> FALSE, resolved_path |-> <<>>, context |-> "", text |-> <<>>,
     cause |-> cause]

\* prov.dummy is the DummyIncludeProvider of tests.rs, which resolves every
\* path to itself and serves the text "[path]" for it.
resolve_path(prov, path, context) ==
    IF prov.dummy
    THEN [ok |-> TRUE, resolved_path |-> path, context |-> context,
          text |-> <<>>, cause |-> ""]
    ELSE IF <<path, context>> \in DOMAIN prov.resolve
    THEN [ok |-> TRUE,
          resolved_path |-> prov.resolve[<<path, context>>].resolved_path,
          context |-> prov.resolve[<<path, context>>].context,
          text |-> <<>>, cause |-> ""]
    ELSE ProviderErr("cannot resolve")

get_include(prov, resolved_path) ==
    IF prov.dummy
    THEN [ok |-> TRUE, resolved_path |-> resolved_path, context |-> "",
          text |-> <<"[">> \o resolved_path \o <<"]">>, cause |-> ""]
    ELSE IF resolved_path \in DOMAIN prov.files
    THEN [ok |-> TRUE, resolved_path |-> resolved_path, context |-> "",
          text |-> prov.files[resolved_path], cause |-> ""]
    ELSE ProviderErr("cannot read")

(***************************************************************************)
(* Scanner.  pc, c_line and path are the position of the scanner's code    *)
(* and its live locals; entry_prior, origin, c_pos, first_pos, marks,       *)
(* chunk_line and lines are history kept for the properties and read by no  *)
(* operation: chunk_line is the line of the input character that gave       *)
(* current_chunk its first character, lines holds it for every chunk.       *)
(***************************************************************************)
SourceChunk(file, line_offset, source, context) ==
    [file |-> file, line_offset |-> line_offset, source |-> source,
     context |-> context]

\* A scanner that starts with the context process_file was given.
Scanner_new_root(input, this_file, include_context, origin) ==
    [include_context |-> "c0",
     input |-> input,
     input_iter |-> LocationTracking(input),
     this_file |-> this_file,
     chunks |-> <<>>,
     current_chunk |-> <<>>,
     current_chunk_first_line |-> 1,
     pc |-> "process_input",
     c_line |-> 0,
     path |-> <<>>,
     entry_prior |-> {},
     origin |-> origin,
     c_pos |-> 0,
     first_pos |-> 1,
     marks |-> <<>>,
     chunk_line |-> 0,
     lines |-> <<>>,
     char_lines |-> <<>>,
     chunk_char_lines |-> <<>>]

Scanner_new(input, this_file, include_context, origin) ==
    [include_context |-> include_context,
     input |-> input,
     input_iter |-> LocationTracking(input),
     this_file |-> this_file,
     chunks |-> <<>>,
     current_chunk |-> <<>>,
     current_chunk_first_line |-> 1,
     pc |-> "process_input",
     c_line |-> 0,
     path |-> <<>>,
     entry_prior |-> {},
     origin |-> origin,
     c_pos |-> 0,
     first_pos |-> 1,
     marks |-> <<>>,
     chunk_line |-> 0,
     lines |-> <<>>,
     char_lines |-> <<>>,
     chunk_char_lines |-> <<>>]

\* The flush without the test for an empty current_chunk.
flush_current_chunk_always(f) ==
    LET pushed ==
            [f EXCEPT
                !.chunks = Append(@, SourceChunk(f.this_file,
                               f.current_chunk_first_line - 1,
                               f.current_chunk, f.include_context)),
                !.marks = Append(@, Append(f.origin, f.first_pos)),
                !.lines = Append(@, f.chunk_line),
                !.chunk_char_lines = Append(@, f.char_lines),
                !.char_lines = <<>>,
                !.current_chunk = <<>>]
        x == peek_char(f.input, f.input_iter)
    IN  IF x.some
        THEN [pushed EXCEPT !.current_chunk_first_line = x.line,
                            !.first_pos = f.input_iter.pos]
        ELSE pushed

flush_current_chunk(f) ==
    LET pushed ==
            IF f.current_chunk # <<>>
            THEN [f EXCEPT
                    !.chunks = Append(@, SourceChunk(f.this_file,
                                   f.current_chunk_first_line - 1,
                                   f.current_chunk, f.include_context)),
                    !.marks = Append(@, Append(f.origin, f.first_pos)),
                    !.lines = Append(@, f.chunk_line),
                    !.chunk_char_lines = Append(@, f.char_lines),
                    !.char_lines = <<>>,
                    !.current_chunk = <<>>]
            ELSE f
        x == peek_char(f.input, f.input_iter)
    IN  IF x.some
        THEN [pushed EXCEPT !.current_chunk_first_line = x.line,
                            !.first_pos = f.input_iter.pos]
        ELSE pushed

(***************************************************************************)
(* include_child, up to the point where the child scanner starts.          *)
(***************************************************************************)
\* The entries of the history calls: a call of the provider, or a call of
\* include_child with the sets as it found them and what it returned.
Event(op, path, context, from, prior, skip, expanding, ret, err) ==
    [op |-> op, path |-> path, context |-> context, from |-> from,
     prior |-> prior, skip |-> skip, expanding |-> expanding,
     ret |-> ret, error |-> err]

ResolveCall(path, context) ==
    Event("resolve_path", path, context, <<>>, {}, {}, {}, "", NoError)

GetCall(resolved_path) ==
    Event("get_include", resolved_path, "", <<>>, {}, {}, {}, "", NoError)

\* scanner.rs:178  self.prior_includes.contains(path)
include_child_is_recursive(prior, path) == path \in prior

\* An include_child that does not look into the once-set.
include_child_is_skipped_never(skip, resolved_path) == FALSE

\* scanner.rs:196  self.skip_includes.contains(&child.resolved_path.0)
include_child_is_skipped(skip, resolved_path) == resolved_path \in skip

\* scanner.rs:208  self.prior_includes.insert(path.to_string())
include_child_insert(prior, path) == prior \cup {path}

\* An include_child that returns without the removal.
include_child_remove_none(prior, path) == prior

\* scanner.rs:223  self.prior_includes.remove(path)
include_child_remove(prior, path) == prior \ {path}

\* The opposite order: the child's chunks ahead of the parent's.
include_child_prepend(chunks, child_chunks) == child_chunks \o chunks

\* scanner.rs:210  self.chunks.append(&mut child_scanner.chunks)
include_child_append(chunks, child_chunks) == chunks \o child_chunks

\* ret = "Err": the call returned error.  ret = "Ok": it returned Ok (the
\* include was skipped).  ret = "Scan": child is the new scanner whose
\* process_input runs next.  self is the calling scanner afterwards.
include_child(f, path, included_on_line, prior, skip, prov) ==
    LET entered == [f EXCEPT !.path = path, !.entry_prior = prior]
        flushed == flush_current_chunk(entered)
        child == resolve_path(prov, path, f.include_context)
        child_code == get_include(prov, child.resolved_path)
        out(ret, err, self, sc, pr, cs) ==
            [ret |-> ret, error |-> err, self |-> self, child |-> sc,
             prior |-> pr, calls |-> cs]
    IN  IF include_child_is_recursive(prior, path)
        THEN out("Err", RecursiveInclude(path, f.this_file, included_on_line),
                 entered, entered, prior, <<>>)
        ELSE IF ~child.ok
        THEN out("Err", IncludeProviderError(path, child.cause),
                 flushed, flushed, prior,
                 <<ResolveCall(path, f.include_context)>>)
        ELSE IF include_child_is_skipped(skip, child.resolved_path)
        THEN out("Ok", NoError, flushed, flushed, prior,
                 <<ResolveCall(path, f.include_context)>>)
        ELSE IF ~child_code.ok
        THEN out("Err",
                 IncludeProviderError(path, child_code.cause),
                 flushed, flushed, prior,
                 <<ResolveCall(path, f.include_context),
                   GetCall(child.resolved_path)>>)
        ELSE out("Scan", NoError, flushed,
                 Scanner_new(child_code.text, child.resolved_path,
                             child.context, Append(f.origin, f.c_pos)),
                 include_child_insert(prior, path),
                 <<ResolveCall(path, f.include_context),
                   GetCall(child.resolved_path)>>)

(***************************************************************************)
(* The actions.  Top is the scanner whose code is running.                 *)
(***************************************************************************)
Top == stack[Len(stack)]
SetTop(f) == [stack EXCEPT ![Len(stack)] = f]
Running == status = "running"
\* the files whose include_child has not returned yet
Expanding == {stack[i].this_file : i \in 2..Len(stack)}
Finished == status \in {"ok", "err"}

\* The effect of a call of include_child made by the scanner f, whose code
\* goes on at pc ret_pc when the call returns Ok.
CallIncludeChild(f, path, included_on_line, ret_pc) ==
    LET r == include_child(f, path, included_on_line,
                           prior_includes, skip_includes, provider)
        called == Event("include_child", path, f.include_context, f.this_file,
                        prior_includes, skip_includes, Expanding, r.ret, r.error)
    IN  /\ calls' = Append(calls, called) \o r.calls
        /\ UNCHANGED <<gl_vars, provider, file_path, skip_includes>>
        /\ IF r.ret = "Err"
           THEN /\ status' = "raising"
                /\ error' = r.error
                /\ stack' = SetTop(r.self)
                /\ UNCHANGED <<prior_includes, result>>
           ELSE IF r.ret = "Ok"
           THEN /\ stack' = SetTop([r.self EXCEPT !.pc = ret_pc])
                /\ status' = IF ret_pc = "returned" THEN "ok" ELSE status
                /\ result' = IF ret_pc = "returned" THEN r.self.chunks ELSE result
                /\ UNCHANGED <<prior_includes, error>>
           ELSE /\ stack' = Append(SetTop([r.self EXCEPT !.pc = ret_pc]), r.child)
                /\ prior_includes' = r.prior
                /\ UNCHANGED <<status, error, result>>

\* History: g is the scanner f after the arm of a character of line
\* c_line; the character is the origin of current_chunk if it filled it.
\* char_lines has the line of every character copied to current_chunk and
\* 0 for the characters a comment leaves.
Pushed(f, g, c_line) ==
    LET n == Len(f.current_chunk)
        pushed == SubSeq(g.current_chunk, n + 1, Len(g.current_chunk))
        copied == pushed = <<next_item(f.input, f.input_iter).c>>
        h == [g EXCEPT !.char_lines =
                 @ \o [k \in DOMAIN pushed |-> IF copied THEN c_line ELSE 0]]
    IN  IF f.current_chunk = <<>> /\ g.current_chunk # <<>>
        THEN [h EXCEPT !.chunk_line = c_line]
        ELSE h

\* process_file: scanner.include_child(file_path, 1)?
ProcessFile ==
    /\ Running
    /\ Top.pc = "process_file"
    /\ CallIncludeChild(Top, file_path, 1, "returned")

\* process_input, the arm of any character but '/' and '#'
ScanChar ==
    /\ Running
    /\ Top.pc = "process_input"
    /\ LET f == Top
           x == next_item(f.input, f.input_iter)
       IN  /\ x.some
           /\ x.c \notin {"/", "#"}
           /\ stack' = SetTop(Pushed(f, [f EXCEPT
                  !.input_iter = read_char(f.input, f.input_iter),
                  !.current_chunk = Append(@, x.c)], x.line))
    /\ UNCHANGED <<gl_vars, provider, file_path, prior_includes, skip_includes,
                   status, error, result, calls>>

\* The arm of '/' without its last branch: a lone slash is not pushed.
process_input_slash_dropped(f) ==
    LET it1 == read_char(f.input, f.input_iter)
        nxt == peek_char(f.input, it1)
        it2 == read_char(f.input, it1)
        bc == skip_block_comment(f.input, it2)
        lc == skip_line(f.input, it2)
    IN  IF nxt.some /\ nxt.c = "*"
        THEN [f EXCEPT !.input_iter = bc.it,
                       !.current_chunk = @ \o <<" ", " ">> \o bc.s]
        ELSE IF nxt.some /\ nxt.c = "/"
        THEN [f EXCEPT !.input_iter = lc.it,
                       !.current_chunk = @ \o lc.pushed]
        ELSE [f EXCEPT !.input_iter = it1]

\* process_input, the arm of '/': a block comment, a line comment or a slash
process_input_slash(f) ==
    LET it1 == read_char(f.input, f.input_iter)
        nxt == peek_char(f.input, it1)
        it2 == read_char(f.input, it1)
        bc == skip_block_comment(f.input, it2)
        lc == skip_line(f.input, it2)
    IN  IF nxt.some /\ nxt.c = "*"
        THEN [f EXCEPT !.input_iter = bc.it,
                       !.current_chunk = @ \o <<" ", " ">> \o bc.s]
        ELSE IF nxt.some /\ nxt.c = "/"
        THEN [f EXCEPT !.input_iter = lc.it,
                       !.current_chunk = @ \o lc.pushed]
        ELSE [f EXCEPT !.input_iter = it1,
                       !.current_chunk = Append(@, "/")]

ScanSlash ==
    /\ Running
    /\ Top.pc = "process_input"
    /\ LET x == next_item(Top.input, Top.input_iter)
       IN  x.some /\ x.c = "/"
    /\ stack' = SetTop(Pushed(Top, process_input_slash(Top),
                               next_item(Top.input, Top.input_iter).line))
    /\ UNCHANGED <<gl_vars, provider, file_path, prior_includes, skip_includes,
                   status, error, result, calls>>

\* The arm of '#' with every #pragma taken for #pragma once.
process_input_hash_pragma(f) ==
    LET x == next_item(f.input, f.input_iter)
        it1 == read_char(f.input, f.input_iter)
        preprocessor_ident == peek_preprocessor_ident(f.input, it1)
        next_ident == peek_preprocessor_ident(f.input, preprocessor_ident.it)
        text == [f EXCEPT !.input_iter = it1,
                          !.current_chunk = Append(@, "#")]
    IN  IF ~preprocessor_ident.ok THEN text
        ELSE IF preprocessor_ident.token = INCLUDE
        THEN [f EXCEPT !.input_iter = preprocessor_ident.it,
                       !.pc = "skip_ws_include",
                       !.c_line = x.line,
                       !.c_pos = f.input_iter.pos]
        ELSE IF preprocessor_ident.token = PRAGMA
        THEN IF next_ident.ok
             THEN [f EXCEPT !.input_iter = next_ident.it,
                            !.pc = "skip_ws_once"]
             ELSE text
        ELSE text

\* process_input, the arm of '#', up to its call of skip_whitespace_until_eol
process_input_hash(f) ==
    LET x == next_item(f.input, f.input_iter)
        it1 == read_char(f.input, f.input_iter)
        preprocessor_ident == peek_preprocessor_ident(f.input, it1)
        next_ident == peek_preprocessor_ident(f.input, preprocessor_ident.it)
        text == [f EXCEPT !.input_iter = it1,
                          !.current_chunk = Append(@, "#")]
    IN  IF ~preprocessor_ident.ok THEN text
        ELSE IF preprocessor_ident.token = INCLUDE
        THEN [f EXCEPT !.input_iter = preprocessor_ident.it,
                       !.pc = "skip_ws_include",
                       !.c_line = x.line,
                       !.c_pos = f.input_iter.pos]
        ELSE IF preprocessor_ident.token = PRAGMA
        THEN IF next_ident.ok /\ next_ident.token = ONCE
             THEN [f EXCEPT !.input_iter = next_ident.it,
                            !.pc = "skip_ws_once"]
             ELSE text
        ELSE text

ScanHash ==
    /\ Running
    /\ Top.pc = "process_input"
    /\ LET x == next_item(Top.input, Top.input_iter)
       IN  x.some /\ x.c = "#"
    /\ stack' = SetTop(Pushed(Top, process_input_hash(Top),
                               next_item(Top.input, Top.input_iter).line))
    /\ UNCHANGED <<gl_vars, provider, file_path, prior_includes, skip_includes,
                   status, error, result, calls>>

\* skip_whitespace_until_eol: an iteration after which the loop goes on
SkipWhitespace ==
    /\ Running
    /\ Top.pc \in {"skip_ws_include", "skip_ws_once"}
    /\ LET r == skip_whitespace_until_eol_iter(Top.input, Top.input_iter)
       IN  /\ ~r.exit
           /\ stack' = SetTop([Top EXCEPT !.input_iter = r.it])
    /\ UNCHANGED <<gl_vars, provider, file_path, prior_includes, skip_includes,
                   status, error, result, calls>>

\* The read of the path with the closing delimiter peeked, not read.
read_include_path_unclosed(f) ==
    LET left_delim == next_item(f.input, f.input_iter)
        it1 == read_char(f.input, f.input_iter)
        r == IF left_delim.some /\ left_delim.c = "\""
             THEN read_string(f.input, it1, "\"")
             ELSE IF left_delim.some /\ left_delim.c = "<"
             THEN read_string(f.input, it1, ">")
             ELSE [some |-> FALSE, s |-> <<>>, it |-> it1]
    IN  IF r.some THEN [r EXCEPT !.it.pos = @ - 1] ELSE r

\* process_input after skip_whitespace_until_eol of an include directive:
\* the delimiters and the path, then include_child or the ParseError
read_include_path(f) ==
    LET left_delim == next_item(f.input, f.input_iter)
        it1 == read_char(f.input, f.input_iter)
    IN  IF left_delim.some /\ left_delim.c = "\""
        THEN read_string(f.input, it1, "\"")
        ELSE IF left_delim.some /\ left_delim.c = "<"
        THEN read_string(f.input, it1, ">")
        ELSE [some |-> FALSE, s |-> <<>>, it |-> it1]

IncludeDirective ==
    /\ Running
    /\ Top.pc = "skip_ws_include"
    /\ skip_whitespace_until_eol_iter(Top.input, Top.input_iter).exit
    /\ LET path == read_include_path(Top)
           f == [Top EXCEPT !.input_iter = path.it]
       IN  IF path.some
           THEN CallIncludeChild(f, path.s, f.c_line, "process_input")
           ELSE /\ status' = "raising"
                /\ error' = ParseError(f.this_file, f.c_line)
                /\ stack' = SetTop(f)
                /\ UNCHANGED <<gl_vars, provider, file_path, prior_includes,
                               skip_includes, result, calls>>

\* The insertion with the name of the scanner process_file starts with.
pragma_once_insert_root(skip, this_file) == skip \cup {<<>>}

\* scanner.rs:282  self.skip_includes.insert(self.this_file.clone())
pragma_once_insert(skip, this_file) == skip \cup {this_file}

\* process_input after skip_whitespace_until_eol of #pragma once
PragmaOnce ==
    /\ Running
    /\ Top.pc = "skip_ws_once"
    /\ skip_whitespace_until_eol_iter(Top.input, Top.input_iter).exit
    /\ skip_includes' = pragma_once_insert(skip_includes, Top.this_file)
    /\ stack' = SetTop([Top EXCEPT !.pc = "process_input"])
    /\ UNCHANGED <<gl_vars, provider, file_path, prior_includes, status, error,
                   result, calls>>

\* process_input reaches the end of its input: the last flush, then the
\* rest of the caller's include_child (append, remove) and its return
Return ==
    /\ Running
    /\ Top.pc = "process_input"
    /\ ~next_item(Top.input, Top.input_iter).some
    /\ LET child == flush_current_chunk(Top)
           n == Len(stack)
           parent == stack[n - 1]
           joined == [parent EXCEPT
                         !.chunks = include_child_append(@, child.chunks),
                         !.marks = include_child_append(@, child.marks),
                         !.lines = @ \o child.lines,
                         !.chunk_char_lines = @ \o child.chunk_char_lines]
       IN  IF n = 1
           THEN /\ stack' = SetTop([child EXCEPT !.pc = "returned"])
                /\ status' = "ok"
                /\ result' = child.chunks
                /\ UNCHANGED prior_includes
           ELSE /\ stack' = Append(SubSeq(stack, 1, n - 2), joined)
                /\ prior_includes' =
                       include_child_remove(prior_includes, parent.path)
                /\ status' = IF parent.pc = "returned" THEN "ok" ELSE status
                /\ result' = IF parent.pc = "returned"
                             THEN joined.chunks ELSE result
    /\ UNCHANGED <<gl_vars, provider, file_path, skip_includes, error, calls>>

\* An Err that a caller drops: its scan goes on after the directive.
Propagate_dropped ==
    /\ status = "raising"
    /\ IF Len(stack) > 1
       THEN /\ stack' = SubSeq(stack, 1, Len(stack) - 1)
            /\ status' = IF Len(stack) > 2 THEN "running" ELSE status
       ELSE /\ status' = "err"
            /\ UNCHANGED stack
    /\ UNCHANGED <<gl_vars, provider, file_path, prior_includes, skip_includes,
                   error, result, calls>>

\* The ? operator: an Err leaves process_input and the caller's
\* include_child at once, one scanner at a time, up to the first caller
Propagate ==
    /\ status = "raising"
    /\ IF Len(stack) > 1
       THEN /\ stack' = SubSeq(stack, 1, Len(stack) - 1)
            /\ UNCHANGED status
       ELSE /\ status' = "err"
            /\ UNCHANGED stack
    /\ UNCHANGED <<gl_vars, provider, file_path, prior_includes, skip_includes,
                   error, result, calls>>

Next ==
    \/ ProcessFile
    \/ ScanChar
    \/ ScanSlash
    \/ ScanHash
    \/ SkipWhitespace
    \/ IncludeDirective
    \/ PragmaOnce
    \/ Return
    \/ Propagate

(***************************************************************************)
(* The inputs: providers and entry points.                                 *)
(***************************************************************************)
MaxItems == 2

foo == <<"f", "o", "o">>
bar == <<"b", "a", "r">>
baz == <<"b", "a", "z">>
oof == <<"o", "o", "f">>
no_file == <<"n", "o", "-", "f", "i", "l", "e">>

Files == {foo, bar, baz}
RawPaths == {foo, bar, baz, oof}
Contexts == {"c0", "c1"}

ResolvedInclude(resolved_path, context) ==
    [resolved_path |-> resolved_path, context |-> context]

\* resolve_path of the providers of tests.rs: the path itself, same context
ResolveIdentity ==
    [k \in Files \X Contexts |-> ResolvedInclude(k[1], k[2])]

\* a provider for which the raw path oof is another spelling of foo
ResolveAlias ==
    [k \in RawPaths \X Contexts |->
        ResolvedInclude(IF k[1] = oof THEN foo ELSE k[1], k[2])]

\* a provider whose resolution depends on the context: the files included
\* from bar are resolved in context c1, where the raw path foo means baz
ResolveByContext ==
    [k \in Files \X Contexts |->
        IF k[2] = "c1"
        THEN ResolvedInclude(IF k[1] = foo THEN baz ELSE k[1], "c1")
        ELSE ResolvedInclude(k[1], IF k[1] = bar THEN "c1" ELSE "c0")]

\* a provider that resolves the raw path oof and has no text for it
ResolveUnreadable ==
    [k \in RawPaths \X Contexts |-> ResolvedInclude(k[1], k[2])]

Resolvers ==
    {ResolveIdentity, ResolveAlias, ResolveByContext, ResolveUnreadable}

\* The lines a generated file is made of
Kinds == {<<"A">>, ONCE} \cup RawPaths

include_directive(raw) == <<"#">> \o INCLUDE \o <<" ", "<">> \o raw \o <<">">>
pragma_once == <<"#">> \o PRAGMA \o <<" ">> \o ONCE

RenderLine(k) ==
    IF k = <<"A">> THEN <<"A", NL>>
    ELSE IF k = ONCE THEN Append(pragma_once, NL)
    ELSE Append(include_directive(k), NL)

RECURSIVE Render(_)
Render(lines) ==
    IF lines = <<>> THEN <<>>
    ELSE RenderLine(Head(lines)) \o Render(Tail(lines))

\* every generated file ends with a letter of its own and no newline
Body(file) == IF file = foo THEN <<"C">> ELSE IF file = bar THEN <<"X">> ELSE <<"Y">>

\* compile_shader is not called
NoCompile ==
    /\ source_chunks = <<>>
    /\ sources = <<>>
    /\ file_and_line_offset = <<>>
    /\ compiler_output = [some |-> FALSE, log |-> <<>>]
    /\ log_str = <<>>
    /\ pretty_log = [some |-> FALSE, log |-> <<>>]
    /\ gl_pc = "idle"

RootScanner(input, this_file, context, pc) ==
    [Scanner_new(input, this_file, context, <<>>) EXCEPT !.pc = pc]

\* process_file(file_path, include_provider, include_context)
InitProcessFile(prov, path, context) ==
    /\ provider = prov
    /\ file_path = path
    /\ stack = <<RootScanner(<<>>, <<>>, context, "process_file")>>
    /\ prior_includes = {}
    /\ skip_includes = {}
    /\ status = "running"
    /\ error = NoError
    /\ result = <<>>
    /\ calls = <<>>
    /\ NoCompile

\* preprocess_into_string of tests.rs: a scanner over the text s itself
InitScanText(prov, s, context) ==
    /\ provider = prov
    /\ file_path = <<>>
    /\ stack = <<RootScanner(s, no_file, context, "process_input")>>
    /\ prior_includes = {}
    /\ skip_includes = {}
    /\ status = "running"
    /\ error = NoError
    /\ result = <<>>
    /\ calls = <<>>
    /\ NoCompile

InitCrawl ==
    \E n1, n2, n3 \in 0..MaxItems :
        /\ n1 + n2 + n3 <= MaxItems
        /\ \E l1 \in [1..n1 -> Kinds], l2 \in [1..n2 -> Kinds],
              l3 \in [1..n3 -> Kinds], r \in Resolvers :
              InitProcessFile(
                  [dummy |-> FALSE, resolve |-> r,
                   files |-> [f \in Files |->
                       Render(IF f = foo THEN l1 ELSE IF f = bar THEN l2 ELSE l3)
                       \o Body(f)]],
                  foo, "c0")

\* The providers and entry points of tests.rs (multi_level_include,
\* pragma_once, include_err), with the texts of the first shortened.
\* resolve_path is Ok for every path; get_include unwraps the map's entry,
\* and the texts served here include only paths that are keys of the map.
HashMapIncludeProvider(files) ==
    [dummy |-> FALSE,
     resolve |-> [k \in RawPaths \X Contexts |->
                     ResolvedInclude(k[1], k[2])],
     files |-> files]

DummyIncludeProvider ==
    [dummy |-> TRUE, resolve |-> <<>>, files |-> <<>>]

multi_level_files ==
    [f \in Files |->
        IF f = foo
        THEN <<"A", NL>> \o include_directive(bar) \o <<NL, "B", NL>>
             \o include_directive(baz) \o <<NL, "C">>
        ELSE IF f = bar THEN <<"X">> ELSE <<"Y">>]

pragma_once_files ==
    [f \in {foo, bar} |->
        IF f = foo
        THEN pragma_once \o <<NL, "B">>
        ELSE include_directive(foo) \o <<NL>> \o include_directive(foo)
             \o <<NL>> \o include_directive(foo)]

\* foo includes bar, bar includes baz, baz includes foo, each after a
\* number of lines of text
RECURSIVE Lines(_)
Lines(n) == IF n = 0 THEN <<>> ELSE <<"A", NL>> \o Lines(n - 1)

include_err_files(n1, n2, n3) ==
    [f \in Files |->
        IF f = foo THEN Lines(n1) \o include_directive(bar)
        ELSE IF f = bar THEN Lines(n2) \o include_directive(baz)
        ELSE Lines(n3) \o include_directive(foo)]

MaxLines == 1

\* foo includes bar, and bar holds a directive followed by a slash
slash_files(directive) ==
    [f \in {foo, bar} |->
        IF f = foo THEN include_directive(bar) \o <<NL, "C">>
        ELSE directive \o <<" ", "/", "/", NL>>]

\* foo includes bar and then baz, and bar includes baz as well
diamond_files ==
    [f \in Files |->
        IF f = foo
        THEN include_directive(bar) \o <<NL>> \o include_directive(baz)
        ELSE IF f = bar THEN include_directive(baz) \o <<NL, "X">>
        ELSE <<"Y">>]

\* bar includes baz twice, the second time under the raw path foo, which
\* the provider resolves to baz in the context of bar's includes
respelled_files ==
    [f \in Files |->
        IF f = foo THEN include_directive(bar)
        ELSE IF f = bar
        THEN include_directive(baz) \o <<NL>> \o include_directive(foo)
        ELSE <<"Y">>]

\* foo is two include directives and nothing else, bar is a #pragma once
\* directive and nothing else, baz is empty
empty_files ==
    [f \in Files |->
        IF f = foo THEN include_directive(bar) \o include_directive(baz)
        ELSE IF f = bar THEN pragma_once
        ELSE <<>>]

ContextIncludeProvider(files) ==
    [dummy |-> FALSE, resolve |-> ResolveByContext, files |-> files]

TestProviders ==
    {HashMapIncludeProvider(multi_level_files),
     HashMapIncludeProvider(diamond_files),
     ContextIncludeProvider(respelled_files),
     HashMapIncludeProvider(empty_files),
     HashMapIncludeProvider(pragma_once_files),
     HashMapIncludeProvider(slash_files(<<"#">> \o INCLUDE)),
     HashMapIncludeProvider(slash_files(pragma_once))}
    \cup {HashMapIncludeProvider(include_err_files(n1, n2, n3)) :
             n1 \in 0..MaxLines, n2 \in 0..MaxLines, n3 \in 0..MaxLines}

InitTests ==
    \E prov \in TestProviders :
        \/ \E path \in DOMAIN prov.files : InitProcessFile(prov, path, "c0")
        \/ \E path \in DOMAIN prov.files :
              InitScanText(prov, include_directive(path), "c0")

\* An #include or a #pragma once directive followed by any characters
FollowChars == {" ", NL, BACKSLASH, "/", "*", "<", ">", "\"", "a"}
MaxFollow == 3

InitDirective ==
    \E n \in 0..MaxFollow, lead \in {<<>>, <<"A", NL>>},
       directive \in {<<"#">> \o INCLUDE, pragma_once} :
        \E follow \in [1..n -> FollowChars] :
            InitScanText(DummyIncludeProvider, lead \o directive \o follow,
                         "c0")

\* Text with comments: any characters, by themselves or after the opening
\* of a line comment or of a block comment
CommentChars == {"a", "#", BACKSLASH, NL, "/", "*"}
MaxBody == 4

InitComment ==
    \E n \in 0..MaxBody,
       opener \in {<<>>, <<"/", "/">>, <<"/", "*">>} :
        \E body \in [1..n -> CommentChars] :
            InitScanText(DummyIncludeProvider, opener \o body, "c0")

\* Directives in pieces: '#', a gap, a word, a gap, a word, and the rest
\* of the text
Continuation == <<BACKSLASH, NL>>
ContinuationCRLF == <<BACKSLASH, CR, NL>>
EmptyComment == <<"/", "*", "*", "/">>
BadEscape == <<BACKSLASH, "a">>

Gaps ==
    {<<>>, <<" ">>, Continuation, ContinuationCRLF, EmptyComment, <<NL>>,
     BadEscape}

inc == <<"i", "n", "c">>
lude == <<"l", "u", "d", "e">>
version == <<"v", "e", "r", "s", "i", "o", "n">>
stuff == <<"s", "t", "u", "f", "f">>

FirstWords == {<<>>, inc, INCLUDE, PRAGMA, version}
SecondWords == {<<>>, lude, ONCE, stuff}
Rests == {<<>>, <<" ", "<">> \o foo \o <<">">>, <<NL, "a">>}

Pieces ==
    [g0 : Gaps, w1 : FirstWords, g1 : Gaps, w2 : SecondWords, rest : Rests]

PiecesText(p) == <<"#">> \o p.g0 \o p.w1 \o p.g1 \o p.w2 \o p.rest

InitPieces ==
    \E p \in Pieces : InitScanText(DummyIncludeProvider, PiecesText(p), "c0")

\* Include paths: the opening delimiter and any characters behind it
PathChars == {"a", BACKSLASH, NL, ">", "\""}
MaxPath == 5

IncludeOpen(left_delim) == <<"#">> \o INCLUDE \o <<" ", left_delim>>

InitPath ==
    \E n \in 0..MaxPath, left_delim \in {"<", "\""} :
        \E body \in [1..n -> PathChars] :
            InitScanText(DummyIncludeProvider, IncludeOpen(left_delim) \o body,
                         "c0")

\* An include directive between two texts
IncludePres == {<<>>, <<"a">>, <<"a", NL>>}

IncludeForms ==
    {include_directive(foo),
     <<"#">> \o INCLUDE \o <<"\"">> \o foo \o <<"\"">>,
     <<"#">> \o INCLUDE \o <<" ">> \o EmptyComment \o <<" ", "<">> \o foo
        \o <<">">>,
     <<"#", " ">> \o INCLUDE \o <<" ", "<">> \o foo \o <<">">>}

IncludePosts ==
    {<<>>, <<NL>>, <<"b">>, <<"/", "/", NL>>, <<" ", "b", NL>>,
     <<"/", "/", "x", NL, "b">>}

InitInclude ==
    \E pre \in IncludePres, form \in IncludeForms, post \in IncludePosts :
        InitScanText(DummyIncludeProvider, pre \o form \o post, "c0")

Init ==
    \/ InitInclude
    \/ InitCrawl
    \/ InitTests
    \/ InitDirective
    \/ InitComment
    \/ InitPieces
    \/ InitPath

Spec == Init /\ [][Next]_vars

(***************************************************************************)
(* gl_compiler.rs: compile_shader.  Strings are sequences of characters.   *)
(***************************************************************************)
Numerals == <<"0", "1", "2", "3", "4", "5", "6", "7", "8", "9">>

AsciiDigits == {Numerals[k] : k \in DOMAIN Numerals}

\* a decimal digit that is not an ASCII digit (U+0663)
ARABIC_INDIC_THREE == "arabic-indic digit three"

\* \d of the regex crate: any Unicode decimal digit
regex_digit(c) == c \in AsciiDigits \cup {ARABIC_INDIC_THREE}

\* \s of the regex crate
regex_space(c) == c \in {" ", "\t", "\n", "\r"}

\* usize::MAX of a 64-bit target, as str::parse reads it
USIZE_MAX ==
    <<"1", "8", "4", "4", "6", "7", "4", "4", "0", "7",
      "3", "7", "0", "9", "5", "5", "1", "6", "1", "5">>

DigitValue(c) == CHOOSE k \in 0..9 : Numerals[k + 1] = c

RECURSIVE StripZeros(_)
StripZeros(digits) ==
    IF digits # <<>> /\ Head(digits) = "0" THEN StripZeros(Tail(digits))
    ELSE digits

\* a is a greater number than b, for digit strings of the same length
RECURSIVE DigitsGreater(_, _)
DigitsGreater(a, b) ==
    IF a = <<>> THEN FALSE
    ELSE IF Head(a) # Head(b) THEN DigitValue(Head(a)) > DigitValue(Head(b))
    ELSE DigitsGreater(Tail(a), Tail(b))

RECURSIVE DigitsValue(_)
DigitsValue(digits) ==
    IF digits = <<>> THEN 0
    ELSE DigitsValue(SubSeq(digits, 1, Len(digits) - 1)) * 10
            + DigitValue(digits[Len(digits)])

\* str::parse::<usize> of a regex capture (\d+): Err on a digit that is not
\* ASCII and on a number greater than usize::MAX
parse_usize(digits) ==
    LET z == StripZeros(digits)
    IN  IF \E k \in DOMAIN digits : digits[k] \notin AsciiDigits
        THEN [ok |-> FALSE, v |-> 0]
        ELSE IF \/ Len(z) > Len(USIZE_MAX)
                \/ Len(z) = Len(USIZE_MAX) /\ DigitsGreater(z, USIZE_MAX)
        THEN [ok |-> FALSE, v |-> 0]
        ELSE [ok |-> TRUE, v |-> DigitsValue(z)]

\* format!("{}", n) of a usize
RECURSIVE to_string(_)
to_string(n) ==
    IF n < 10 THEN <<Numerals[n + 1]>>
    ELSE to_string(n \div 10) \o <<Numerals[(n % 10) + 1]>>

\* the strings handed to the compiler, with the sequence number at the
\* place of the line
build_sources_swapped(chunks) ==
    [i \in DOMAIN chunks |->
        IF i = 1 THEN chunks[i].source
        ELSE <<"#", "l", "i", "n", "e", " ">> \o to_string(i) \o <<" ", "0">>
                \o <<NL>> \o chunks[i].source]

\* gl_compiler.rs:109-124, the strings handed to the compiler (i of the
\* source is the index less one)
build_sources(chunks) ==
    [i \in DOMAIN chunks |->
        IF i = 1 THEN chunks[i].source
        ELSE <<"#", "l", "i", "n", "e", " ", "0", " ">> \o to_string(i)
                \o <<NL>> \o chunks[i].source]

FileAndLineOffset(chunk) ==
    [file |-> chunk.file, line_offset |-> chunk.line_offset]

build_file_and_line_offset(chunks) ==
    [i \in DOMAIN chunks |-> FileAndLineOffset(chunks[i])]

\* \d* at p: the end of the longest run of digits that starts at p
DigitsEnd(log, p) ==
    CHOOSE q \in p..(Len(log) + 1) :
        /\ \A k \in p..(q - 1) : regex_digit(log[k])
        /\ q = Len(log) + 1 \/ ~regex_digit(log[q])

\* \s* at p: the end of the longest run of whitespace that starts at p
SpaceEnd(log, p) ==
    CHOOSE q \in p..(Len(log) + 1) :
        /\ \A k \in p..(q - 1) : regex_space(log[k])
        /\ q = Len(log) + 1 \/ ~regex_space(log[q])

\* (?m)^
at_line_start(log, p) == p = 1 \/ log[p - 1] = NL

NoMatch == [some |-> FALSE, c1 |-> <<>>, c2 |-> <<>>, end |-> 0]

ERROR_PREFIX == <<"E", "R", "R", "O", "R", ":">>

\* (?m)^ERROR:\s*(\d+):(\d+) at p
INTEL_AMD_ERROR_RE(log, p) ==
    LET a == p + Len(ERROR_PREFIX)
        b == SpaceEnd(log, a)
        c == DigitsEnd(log, b)
        d == c + 1
        e == DigitsEnd(log, d)
    IN  IF /\ at_line_start(log, p)
           /\ a - 1 <= Len(log)
           /\ SubSeq(log, p, a - 1) = ERROR_PREFIX
           /\ c > b
           /\ c <= Len(log)
           /\ log[c] = ":"
           /\ e > d
        THEN [some |-> TRUE, c1 |-> SubSeq(log, b, c - 1),
              c2 |-> SubSeq(log, d, e - 1), end |-> e]
        ELSE NoMatch

\* (?m)^(\d+)\((\d+)\)\s* at p
NV_ERROR_RE(log, p) ==
    LET c == DigitsEnd(log, p)
        d == c + 1
        e == DigitsEnd(log, d)
    IN  IF /\ at_line_start(log, p)
           /\ c > p
           /\ c <= Len(log)
           /\ log[c] = "("
           /\ e > d
           /\ e <= Len(log)
           /\ log[e] = ")"
        THEN [some |-> TRUE, c1 |-> SubSeq(log, p, c - 1),
              c2 |-> SubSeq(log, d, e - 1),
              end |-> SpaceEnd(log, e + 1)]
        ELSE NoMatch

regex_at(re, log, p) ==
    IF re = "INTEL_AMD_ERROR_RE" THEN INTEL_AMD_ERROR_RE(log, p)
    ELSE NV_ERROR_RE(log, p)

Panicked == [panicked |-> TRUE, s |-> <<>>]

\* the closure with the source index taken as it is
error_replacement_unclamped(c1, c2, fal) ==
    LET chunk == parse_usize(c1)
        line == parse_usize(c2)
    IN  IF ~chunk.ok \/ ~line.ok THEN Panicked
        ELSE IF chunk.v + 1 \notin DOMAIN fal THEN Panicked
        ELSE [panicked |-> FALSE,
              s |-> fal[chunk.v + 1].file \o <<"(">>
                       \o to_string(line.v + fal[chunk.v + 1].line_offset)
                       \o <<")">>]

\* gl_compiler.rs:136-144, the closure error_replacement: unwrap panics on
\* Err, the index panics out of bounds (chunk is the index less one)
error_replacement(c1, c2, fal) ==
    LET chunk == parse_usize(c1)
        line == parse_usize(c2)
        index == IF chunk.v > 1 THEN chunk.v ELSE 1
    IN  IF ~chunk.ok \/ ~line.ok THEN Panicked
        ELSE IF index \notin DOMAIN fal THEN Panicked
        ELSE [panicked |-> FALSE,
              s |-> fal[index].file \o <<"(">>
                       \o to_string(line.v + fal[index].line_offset)
                       \o <<")">>]

\* Regex::replace_all: the matches from left to right, none overlapping
RECURSIVE replace_all_loop(_, _, _, _, _)
replace_all_iter(re, log, fal, p, out) ==
    IF p > Len(log) THEN [panicked |-> FALSE, s |-> out]
    ELSE LET m == regex_at(re, log, p)
             r == error_replacement(m.c1, m.c2, fal)
         IN  IF ~m.some
             THEN replace_all_loop(re, log, fal, p + 1, Append(out, log[p]))
             ELSE IF r.panicked THEN Panicked
             ELSE replace_all_loop(re, log, fal, m.end, out \o r.s)

replace_all_loop(re, log, fal, p, out) ==
    CHOOSE r \in {replace_all_iter(re, log, fal, q, o) :
                     q \in {p}, o \in {out}} : TRUE

replace_all(re, log, fal) == replace_all_loop(re, log, fal, 1, <<>>)

\* gl_compiler.rs:109-124
BuildSources ==
    /\ gl_pc = "compile_shader"
    /\ sources' = build_sources(source_chunks)
    /\ file_and_line_offset' = build_file_and_line_offset(source_chunks)
    /\ gl_pc' = "compiler_fn"
    /\ UNCHANGED <<source_chunks, compiler_output, log_str, pretty_log>>
    /\ UNCHANGED <<provider, file_path, stack, prior_includes, skip_includes,
                   status, error, result, calls>>

\* The compiler's logs: a line with an error of either form, or none, and
\* at most one more line
TooLarge == [k \in DOMAIN USIZE_MAX |-> "9"]

LogIndices == {<<"0">>, <<"1">>, <<"2">>, <<"3">>, TooLarge,
               <<ARABIC_INDIC_THREE>>}

LogHeads ==
    {ERROR_PREFIX \o gap \o i \o <<":", "7">> :
        gap \in {<<>>, <<" ">>}, i \in LogIndices}
    \cup {i \o <<"(", "7", ")">> : i \in LogIndices}
    \cup {<<" ", "2", "(", "7", ")">>, <<"x">>}

LogTails == {<<>>, <<":", " ", "e">>, <<" ", "e">>}

LogSeconds ==
    {<<>>, <<NL, "x">>, <<NL, "1", "(", "7", ")">>,
     <<NL>> \o ERROR_PREFIX \o <<" ", "1", ":", "7">>}

CompilerLogs ==
    {head \o tail \o second :
        head \in LogHeads, tail \in LogTails, second \in LogSeconds}

\* gl_compiler.rs:126  compiler_fn(&sources)
CompilerFn ==
    /\ gl_pc = "compiler_fn"
    /\ \/ compiler_output' = [some |-> FALSE, log |-> <<>>]
       \/ \E log \in CompilerLogs :
              compiler_output' = [some |-> TRUE, log |-> log]
    /\ gl_pc' = "replace_intel_amd"
    /\ UNCHANGED <<source_chunks, sources, file_and_line_offset, log_str,
                   pretty_log>>
    /\ UNCHANGED <<provider, file_path, stack, prior_includes, skip_includes,
                   status, error, result, calls>>

\* gl_compiler.rs:147  INTEL_AMD_ERROR_RE.replace_all(&log_str, ...)
ReplaceIntelAmd ==
    /\ gl_pc = "replace_intel_amd"
    /\ IF ~compiler_output.some
       THEN /\ gl_pc' = "returned"
            /\ UNCHANGED log_str
       ELSE LET r == replace_all("INTEL_AMD_ERROR_RE", compiler_output.log,
                                 file_and_line_offset)
            IN  /\ gl_pc' = IF r.panicked THEN "panicked" ELSE "replace_nv"
                /\ log_str' = r.s
    /\ UNCHANGED <<source_chunks, sources, file_and_line_offset,
                   compiler_output, pretty_log>>
    /\ UNCHANGED <<provider, file_path, stack, prior_includes, skip_includes,
                   status, error, result, calls>>

\* gl_compiler.rs:148-150  NV_ERROR_RE.replace_all(&log_str, ...)
ReplaceNv ==
    /\ gl_pc = "replace_nv"
    /\ LET r == replace_all("NV_ERROR_RE", log_str, file_and_line_offset)
       IN  /\ gl_pc' = IF r.panicked THEN "panicked" ELSE "returned"
           /\ pretty_log' = [some |-> ~r.panicked, log |-> r.s]
    /\ UNCHANGED <<source_chunks, sources, file_and_line_offset,
                   compiler_output, log_str>>
    /\ UNCHANGED <<provider, file_path, stack, prior_includes, skip_includes,
                   status, error, result, calls>>

\* The chunks compile_shader is given
MaxChunks == 3

GLChunks ==
    {SourceChunk(<<"A">>, 0, <<"a", NL>>, "c0"),
     SourceChunk(<<"B">>, 5, <<"b">>, "c0"),
     SourceChunk(<<"2">>, 0, <<"c">>, "c0")}

InitGL ==
    /\ provider = DummyIncludeProvider
    /\ file_path = <<>>
    /\ stack = <<>>
    /\ prior_includes = {}
    /\ skip_includes = {}
    /\ status = "ok"
    /\ error = NoError
    /\ result = <<>>
    /\ calls = <<>>
    /\ \E n \in 0..MaxChunks : source_chunks \in [1..n -> GLChunks]
    /\ sources = <<>>
    /\ file_and_line_offset = <<>>
    /\ compiler_output = [some |-> FALSE, log |-> <<>>]
    /\ log_str = <<>>
    /\ pretty_log = [some |-> FALSE, log |-> <<>>]
    /\ gl_pc = "compile_shader"

NextGL ==
    \/ BuildSources
    \/ CompilerFn
    \/ ReplaceIntelAmd
    \/ ReplaceNv

SpecGL == InitGL /\ [][NextGL]_vars

(***************************************************************************)
(* Properties                                                              *)
(***************************************************************************)
\* preprocess_into_string: the sources of the chunks, joined
RECURSIVE join_sources(_)
join_sources(chunks) ==
    IF chunks = <<>> THEN <<>>
    ELSE Head(chunks).source \o join_sources(Tail(chunks))

\* the letters of a text, in order
RECURSIVE Letters(_)
Letters(text) ==
    IF text = <<>> THEN <<>>
    ELSE IF is_alphabetic(Head(text)) THEN <<Head(text)>> \o Letters(Tail(text))
    ELSE Letters(Tail(text))

Contains(text, word) ==
    \E i \in 1..Len(text) :
        /\ i + Len(word) - 1 <= Len(text)
        /\ SubSeq(text, i, i + Len(word) - 1) = word

\* a text in which no '#' is followed by letters that spell a directive
\* word, however the letters are spliced
NoDirective(text) ==
    \A i \in 1..Len(text) :
        text[i] = "#"
        => /\ ~Contains(Letters(SubSeq(text, i + 1, Len(text))), INCLUDE)
           /\ ~Contains(Letters(SubSeq(text, i + 1, Len(text))), ONCE)

\* a text without the opening of a comment
NoComment(text) ==
    /\ ~Contains(text, <<"/", "*">>)
    /\ ~Contains(text, <<"/", "/">>)

IncludeChildEvents == {k \in 1..Len(calls) : calls[k].op = "include_child"}

\* what the provider answers for the path of the include_child call e
Resolved(e) == resolve_path(provider, e.path, e.context)

\* a < b in document order: the marks are the positions of the include
\* directives from the entry file down to a chunk, then the chunk's start
LexLess(a, b) ==
    \/ Len(a) < Len(b) /\ SubSeq(b, 1, Len(a)) = a
    \/ \E k \in 1..Len(a) :
          /\ k <= Len(b)
          /\ SubSeq(a, 1, k - 1) = SubSeq(b, 1, k - 1)
          /\ a[k] < b[k]

multi_level_chunks ==
    <<SourceChunk(foo, 0, <<"A", NL>>, "c0"),
      SourceChunk(bar, 0, <<"X">>, "c0"),
      SourceChunk(foo, 1, <<NL, "B", NL>>, "c0"),
      SourceChunk(baz, 0, <<"Y">>, "c0"),
      SourceChunk(foo, 3, <<NL, "C">>, "c0")>>

\* C1: a crawl that ends without error returns the chunks in pre-order,
\* depth-first document order: every chunk of an included file lies after
\* the includer's chunks that start before the directive and before those
\* that start after it; the example of the tests yields its five chunks.
C1_PreOrderFlattening ==
    status = "ok" =>
        /\ Len(stack[1].marks) = Len(result)
        /\ \A i, j \in 1..Len(result) :
              i < j => LexLess(stack[1].marks[i], stack[1].marks[j])
        /\ (provider = HashMapIncludeProvider(multi_level_files)
            /\ file_path = foo) => result = multi_level_chunks

C1_Witness ==
    /\ status = "ok"
    /\ provider = HashMapIncludeProvider(multi_level_files)
    /\ file_path = foo
    /\ result = multi_level_chunks

\* C2: an include whose resolved path is that of a file being expanded
\* fails with RecursiveInclude at once, so that no file is ever being
\* expanded twice at the same time.
C2_CycleKeyedOnResolvedPath ==
    /\ \A k \in IncludeChildEvents :
          (/\ Resolved(calls[k]).ok
           /\ Resolved(calls[k]).resolved_path \in calls[k].expanding
           /\ Resolved(calls[k]).resolved_path \notin calls[k].skip)
          => /\ calls[k].ret = "Err"
             /\ calls[k].error.kind = "RecursiveInclude"
    /\ \A i, j \in 2..Len(stack) :
          i < j => stack[i].this_file # stack[j].this_file

\* the file that includes f in the cycle of include_err_files
IncludedFrom(f) == IF f = foo THEN baz ELSE IF f = bar THEN foo ELSE bar

\* the lines of text before the directive of f in include_err_files
LinesBefore(f, n1, n2, n3) == IF f = foo THEN n1 ELSE IF f = bar THEN n2 ELSE n3

\* the path the run started from: process_file's, or the one of the
\* directive the first scanner was given
EntryPath ==
    IF file_path # <<>> THEN file_path
    ELSE SubSeq(stack[1].input, 11, Len(stack[1].input) - 1)

\* C3: when foo includes bar, bar includes baz and baz includes foo, the
\* run from any of the three ends with RecursiveInclude whose file is the
\* entry file, whose from is the file that includes it, and whose
\* from_line is the line of that file's directive; no chunk is returned.
C3_IncludeErrFields ==
    \A n1, n2, n3 \in 0..MaxLines :
        (/\ provider = HashMapIncludeProvider(include_err_files(n1, n2, n3))
         /\ Finished)
        => /\ status = "err"
           /\ error.kind = "RecursiveInclude"
           /\ error.file = EntryPath
           /\ error.from = IncludedFrom(EntryPath)
           /\ error.line = LinesBefore(IncludedFrom(EntryPath), n1, n2, n3) + 1
           /\ result = <<>>

C3_Witness ==
    /\ provider = HashMapIncludeProvider(include_err_files(0, 0, 1))
    /\ file_path = foo
    /\ status = "err"
    /\ error.kind = "RecursiveInclude"
    /\ error.file = foo
    /\ error.from = baz
    /\ error.line = 2

\* C4: once a file has put itself in the once-set, every later include
\* that resolves to it returns Ok without a get_include call, and the
\* file is read once in the whole crawl.
C4_PragmaOnceIdempotent ==
    /\ \A k \in IncludeChildEvents :
          (/\ Resolved(calls[k]).ok
           /\ Resolved(calls[k]).resolved_path \in calls[k].skip)
          => /\ calls[k].ret = "Ok"
             /\ (k + 2 <= Len(calls) => calls[k + 2].op # "get_include")
    /\ \A f \in skip_includes :
          Cardinality({k \in 1..Len(calls) :
              calls[k].op = "get_include" /\ calls[k].path = f}) <= 1

\* what follows the whitespace, continuations and block comments after
\* #include is neither of the two opening delimiters
AtNoDelimiter(f) ==
    LET x == peek_char(f.input, f.input_iter)
        y == peek_char(f.input, read_char(f.input, f.input_iter))
    IN  \/ ~x.some
        \/ x.c = NL
        \/ /\ ~is_whitespace(x.c)
           /\ ~(x.c = BACKSLASH /\ y.some /\ y.c = NL)
           /\ ~(x.c = "/" /\ y.some /\ y.c = "*")
           /\ x.c \notin {"\"", "<"}

\* C5: an include directive whose path does not open with a delimiter ends
\* the scan with ParseError: the scanner leaves the whitespace loop there
\* and reads no path.
C5_MalformedIncludeIsParseError ==
    (Running /\ Top.pc = "skip_ws_include" /\ AtNoDelimiter(Top))
    => /\ skip_whitespace_until_eol_iter(Top.input, Top.input_iter).exit
       /\ ~read_include_path(Top).some

\* C6: every iteration of skip_whitespace_until_eol ends the loop or
\* consumes a character.
C6_EveryIterationConsumes ==
    (Running /\ Top.pc \in {"skip_ws_include", "skip_ws_once"})
    => LET r == skip_whitespace_until_eol_iter(Top.input, Top.input_iter)
       IN  r.exit \/ r.it.pos > Top.input_iter.pos

\* C7: a crawl started by process_file ends: as long as process_file has
\* not returned, the scanner has a step to take that changes its state.
C7_CrawlEnds == file_path # <<>> => (Finished \/ ENABLED <<Next>>_vars)

\* C8: when an include_child call returns (its scanner leaves the stack),
\* the in-progress set is what it was when the call was entered.
C8_InProgressRestored ==
    [][Len(stack') < Len(stack)
       => prior_includes' = stack[Len(stack) - 1].entry_prior]_vars

\* C9: an include whose resolved path is in the once-set returns Ok also
\* when that file is being expanded or its raw path is in progress.
C9_OnceBeforeCycle ==
    \A k \in IncludeChildEvents :
        (/\ Resolved(calls[k]).ok
         /\ Resolved(calls[k]).resolved_path \in calls[k].skip
         /\ \/ Resolved(calls[k]).resolved_path \in calls[k].expanding
            \/ calls[k].path \in calls[k].prior)
        => calls[k].ret = "Ok"

\* C10: RecursiveInclude is returned only when the resolved path of the
\* include is that of a file being expanded.
C10_RecursiveOnlyForCycle ==
    \A k \in IncludeChildEvents :
        (calls[k].ret = "Err" /\ calls[k].error.kind = "RecursiveInclude")
        => /\ Resolved(calls[k]).ok
           /\ Resolved(calls[k]).resolved_path \in calls[k].expanding

\* C11: an include of a readable file that is not being expanded and is
\* not in the once-set, and that was expanded before in this crawl, is
\* expanded again.
C11_ReincludeIsLegal ==
    \A k \in IncludeChildEvents :
        LET r == Resolved(calls[k])
        IN  (/\ r.ok
             /\ r.resolved_path \notin calls[k].expanding
             /\ r.resolved_path \notin calls[k].skip
             /\ get_include(provider, r.resolved_path).ok
             /\ \E j \in 1..(k - 1) :
                    /\ calls[j].op = "get_include"
                    /\ calls[j].path = r.resolved_path)
            => calls[k].ret = "Scan"

\* the last call of include_child made so far
LastIncludeChild ==
    CHOOSE k \in IncludeChildEvents : \A j \in IncludeChildEvents : j <= k

\* C12: an include_child call whose resolve_path or get_include call
\* fails returns IncludeProviderError with the raw path of the call and
\* the provider's error; no scanner is made for the child, and that error
\* is what the crawl is returning from then on.
C12_ProviderErrorSurfaced ==
    /\ \A k \in IncludeChildEvents :
          LET r == Resolved(calls[k])
              g == get_include(provider, calls[k + 2].path)
          IN  /\ (/\ k + 1 <= Len(calls)
                  /\ calls[k + 1].op = "resolve_path"
                  /\ ~r.ok)
                 => /\ calls[k].ret = "Err"
                    /\ calls[k].error.kind = "IncludeProviderError"
                    /\ calls[k].error.file = calls[k].path
                    /\ calls[k].error.cause = r.cause
                    /\ k + 1 = Len(calls)
              /\ (/\ k + 2 <= Len(calls)
                  /\ calls[k + 2].op = "get_include"
                  /\ ~g.ok)
                 => /\ calls[k].ret = "Err"
                    /\ calls[k].error.kind = "IncludeProviderError"
                    /\ calls[k].error.file = calls[k].path
                    /\ calls[k].error.cause = g.cause
                    /\ k + 2 = Len(calls)
    /\ (/\ IncludeChildEvents # {}
        /\ calls[LastIncludeChild].error.kind = "IncludeProviderError")
       => /\ status \in {"raising", "err"}
          /\ error = calls[LastIncludeChild].error
          /\ Expanding \subseteq calls[LastIncludeChild].expanding
          /\ result = <<>>

\* the crawl has returned the error of a get_include call made two
\* include_child calls deep
C12_Witness ==
    /\ status = "err"
    /\ error.kind = "IncludeProviderError"
    /\ error.file = oof
    /\ error.cause = "cannot read"
    /\ file_path = foo
    /\ calls[LastIncludeChild].from = foo
    /\ calls[Len(calls)].op = "get_include"

\* C13: the crawl returns all the chunks or the first error and nothing
\* else.  Once an error is raised it is the one returned: the scanners
\* only return, none reads a character, the provider is not called and no
\* chunk is returned; chunks are returned only by a crawl without error,
\* when every scanner has reached the end of its input.
C13_AllOrNothing ==
    [][/\ status = "raising"
          => /\ status' \in {"raising", "err"}
             /\ error' = error
             /\ calls' = calls
             /\ result' = <<>>
             /\ Len(stack') <= Len(stack)
             /\ stack' = SubSeq(stack, 1, Len(stack'))
       /\ (status = "running" /\ status' # "running")
          => /\ status' = "raising" => (error' # NoError /\ result' = <<>>)
             /\ status' = "ok"
                => /\ error' = NoError
                   /\ Len(stack') = 1
                   /\ result' = stack'[1].chunks
                   /\ ~next_item(stack'[1].input, stack'[1].input_iter).some
             /\ status' # "err"
       /\ ~Finished]_vars

\* foo had a first include expanded and spliced in when its second include
\* failed, and the crawl returned the error and no chunk
C13_Witness ==
    /\ status = "err"
    /\ result = <<>>
    /\ \E j, k \in IncludeChildEvents :
          /\ j < k
          /\ calls[j].from = foo
          /\ calls[j].ret = "Scan"
          /\ calls[k].from = foo
          /\ calls[k].ret = "Err"

\* C14: line_offset of every chunk is the line, less one, of the input
\* character that gave the chunk its first character.
C14_LineOffsetIsFirstLine ==
    \A i \in 1..Len(stack) :
        \A j \in 1..Len(stack[i].chunks) :
            stack[i].chunks[j].line_offset = stack[i].lines[j] - 1

\* C15: for a text without a directive, the sources of the chunks joined
\* are the text.
C15_RoundTrip ==
    (status = "ok" /\ file_path = <<>> /\ NoDirective(stack[1].input))
    => join_sources(result) = stack[1].input

\* C15, amended: for a text without a directive and without a comment,
\* the sources of the chunks joined are the text.
C15_RoundTripNoComment ==
    (/\ status = "ok"
     /\ file_path = <<>>
     /\ NoDirective(stack[1].input)
     /\ NoComment(stack[1].input))
    => join_sources(result) = stack[1].input

C15_Witness ==
    /\ status = "ok"
    /\ stack[1].input = <<"#", "/", BACKSLASH, "a">>
    /\ join_sources(result) = <<"#", "/", BACKSLASH, "a">>

\* A block comment opens at position p of the text: the position of the
\* slash of the first star-slash behind the opening, or the end of the text
CommentEnd(text, p) ==
    LET closes == {e \in (p + 3)..Len(text) :
                      text[e - 1] = "*" /\ text[e] = "/"}
    IN  IF closes = {} THEN Len(text)
        ELSE CHOOSE e \in closes : \A d \in closes : e <= d

AtBlockComment(f) ==
    /\ f.pc = "process_input"
    /\ f.input_iter.pos < Len(f.input)
    /\ f.input[f.input_iter.pos] = "/"
    /\ f.input[f.input_iter.pos + 1] = "*"

LineCommentEnd(text, p) ==
    LET ends == {e \in (p + 2)..Len(text) :
                    text[e] = NL /\ ~(e - 1 >= p + 2 /\ text[e - 1] = BACKSLASH)}
    IN  IF ends = {} THEN Len(text)
        ELSE CHOOSE e \in ends : \A d \in ends : e <= d

AtLineComment(f) ==
    /\ f.pc = "process_input"
    /\ f.input_iter.pos < Len(f.input)
    /\ f.input[f.input_iter.pos] = "/"
    /\ f.input[f.input_iter.pos + 1] = "/"

\* C17: the scanner at a line comment consumes it up to and with the
\* newline that ends it, a newline after a backslash continuing the
\* comment, and pushes one newline for every newline consumed and nothing
\* else.
C17_LineCommentDropped ==
    (Running /\ AtLineComment(Top))
    => LET p == Top.input_iter.pos
           e == LineCommentEnd(Top.input, p)
           g == process_input_slash(Top)
           n == Len(Top.current_chunk)
           newlines == {i \in p..e : Top.input[i] = NL}
       IN  /\ g.input_iter.pos = e + 1
           /\ Len(g.current_chunk) = n + Cardinality(newlines)
           /\ SubSeq(g.current_chunk, 1, n) = Top.current_chunk
           /\ \A i \in (n + 1)..Len(g.current_chunk) : g.current_chunk[i] = NL

\* what the main loop emits for a gap: spaces for the comment, the gap
\* itself otherwise
GapOut(g) == IF g = EmptyComment THEN <<" ", " ", " ", " ">> ELSE g

PiecesOut(p) ==
    <<"#">> \o GapOut(p.g0) \o p.w1 \o GapOut(p.g1) \o p.w2 \o p.rest

\* the pieces that spell neither #include nor #pragma once
OtherPieces ==
    {p \in Pieces :
        /\ p.w1 # INCLUDE
        /\ p.w1 = version \/ p.w2 \in {<<>>, stuff}}

OtherTexts == {PiecesText(p) : p \in OtherPieces}
OtherTextsOut == {<<PiecesText(p), PiecesOut(p)>> : p \in OtherPieces}

\* C18: a text that opens with a directive other than #include and
\* #pragma once is scanned as ordinary text: nothing is flushed before the
\* end, the provider is not called, the sets stay empty, and the one chunk
\* returned is the text, its comments blanked.
C18_OtherDirectivesPassThrough ==
    (file_path = <<>> /\ stack[1].input \in OtherTexts)
    => /\ calls = <<>>
       /\ skip_includes = {}
       /\ prior_includes = {}
       /\ status \in {"running", "ok"}
       /\ Running => stack[1].chunks = <<>>
       /\ status = "ok"
          => /\ Len(result) = 1
             /\ result[1].line_offset = 0
             /\ <<stack[1].input, result[1].source>> \in OtherTextsOut

\* #pragma stuff, with a comment before the word and a line after it,
\* has been scanned
C18_Witness ==
    /\ status = "ok"
    /\ stack[1].input =
           <<"#">> \o PRAGMA \o EmptyComment \o stuff \o <<NL, "a">>
    /\ join_sources(result) =
           <<"#">> \o PRAGMA \o <<" ", " ", " ", " ">> \o stuff \o <<NL, "a">>

\* the gaps the identifier scan passes over before the identifier
Transparent == {<<>>, <<" ">>, Continuation, ContinuationCRLF, EmptyComment}

\* the pieces that spell #include <foo>, the word whole or spliced by a
\* continuation
IncludePieces ==
    {p \in Pieces :
        /\ p.g0 \in Transparent
        /\ p.rest = <<" ", "<">> \o foo \o <<">">>
        /\ \/ /\ p.w1 = inc
              /\ p.g1 \in {<<>>, Continuation, ContinuationCRLF}
              /\ p.w2 = lude
           \/ /\ p.w1 = INCLUDE
              /\ p.g1 = <<>>
              /\ p.w2 = <<>>}

\* the pieces in which a comment, a newline or a space splits the word
SplitPieces ==
    {p \in Pieces :
        /\ p.w1 = inc
        /\ p.g1 \in {EmptyComment, <<NL>>, <<" ">>}
        /\ p.w2 = lude}

IncludeTexts == {PiecesText(p) : p \in IncludePieces}
SplitTexts == {PiecesText(p) : p \in SplitPieces}
SplitTextsOut == {<<PiecesText(p), PiecesOut(p)>> : p \in SplitPieces}

\* C19: '#', then spaces, continuations and comments, then the letters of
\* include, whole or spliced by continuations, is an include directive:
\* the path is included and nothing of the directive is emitted.  With a
\* comment, a newline or a space inside the word there is no directive:
\* the text is emitted, the comment blanked.
C19_DirectiveRecognition ==
    /\ (/\ file_path = <<>>
        /\ provider = DummyIncludeProvider
        /\ stack[1].input \in IncludeTexts)
       => /\ status \in {"running", "ok"}
          /\ stack[1].current_chunk = <<>>
          /\ status = "ok"
             => /\ Len(calls) = 3
                /\ calls[1].op = "include_child"
                /\ calls[1].path = foo
                /\ join_sources(result) = <<"[">> \o foo \o <<"]">>
    /\ (file_path = <<>> /\ stack[1].input \in SplitTexts)
       => /\ status \in {"running", "ok"}
          /\ calls = <<>>
          /\ status = "ok"
             => <<stack[1].input, join_sources(result)>> \in SplitTextsOut

\* the directive with a comment before the word and the word spliced by a
\* continuation with CR LF has included foo
C19_Witness ==
    /\ status = "ok"
    /\ stack[1].input =
           <<"#">> \o EmptyComment \o inc \o ContinuationCRLF \o lude
           \o <<" ", "<">> \o foo \o <<">">>
    /\ join_sources(result) = <<"[">> \o foo \o <<"]">>

\* the pieces that spell #pragma once
OncePieces ==
    {p \in Pieces :
        /\ p.g0 \in Transparent
        /\ p.w1 = PRAGMA
        /\ p.g1 \in {<<" ">>, EmptyComment}
        /\ p.w2 = ONCE}

\* what is left of the text behind #pragma once: the rest without the
\* space the directive ends with
OnceOut(p) == IF p.rest # <<>> /\ Head(p.rest) = " " THEN Tail(p.rest) ELSE p.rest

\* the pieces that spell #pragma with another word, with none, or with
\* once on the next line
PragmaPieces ==
    {p \in Pieces :
        /\ p.g0 \in Transparent
        /\ p.w1 = PRAGMA
        /\ p.w2 \in {<<>>, stuff} \/ (p.w2 = ONCE /\ p.g1 = <<NL>>)}

OnceTexts == {PiecesText(p) : p \in OncePieces}
OnceTextsOut == {<<PiecesText(p), OnceOut(p)>> : p \in OncePieces}
PragmaTexts == {PiecesText(p) : p \in PragmaPieces}
PragmaTextsOut == {<<PiecesText(p), PiecesOut(p)>> : p \in PragmaPieces}

\* the scanner that wrote the name f in the once-set was given a text
\* with the words pragma and once in it
HasPragmaOnce(f) ==
    \/ f = no_file /\ Contains(Letters(stack[1].input), PRAGMA \o ONCE)
    \/ /\ ~provider.dummy
       /\ f \in DOMAIN provider.files
       /\ Contains(Letters(provider.files[f]), PRAGMA \o ONCE)

\* C20: a step that changes the once-set adds the name of the file of the
\* running scanner and nothing else, pushes nothing and flushes nothing,
\* and only files with #pragma once in their text are in the set.  A text
\* that opens with #pragma once leaves its scanner's file in the set and
\* nothing of the directive in the output; a text that opens with another
\* #pragma leaves the set empty and is emitted as it is.
C20_PragmaOnceMarksThisFile ==
    [][/\ skip_includes' # skip_includes
          => /\ skip_includes' = skip_includes \cup {Top.this_file}
             /\ Len(stack') = Len(stack)
             /\ Top'.chunks = Top.chunks
             /\ Top'.current_chunk = Top.current_chunk
             /\ SubSeq(stack', 1, Len(stack) - 1)
                    = SubSeq(stack, 1, Len(stack) - 1)
       /\ \A f \in skip_includes' : HasPragmaOnce(f)
       /\ (file_path = <<>> /\ stack[1].input \in OnceTexts)
          => /\ calls' = <<>>
             /\ status' \in {"running", "ok"}
             /\ status' = "ok"
                => /\ skip_includes' = {no_file}
                   /\ Len(result') <= 1
                   /\ <<stack[1].input, join_sources(result')>> \in OnceTextsOut
       /\ (file_path = <<>> /\ stack[1].input \in PragmaTexts)
          => /\ calls' = <<>>
             /\ skip_includes' = {}
             /\ status' \in {"running", "ok"}
             /\ status' = "ok"
                => <<stack[1].input, join_sources(result')>> \in PragmaTextsOut
      ]_vars

\* #pragma once, a comment between the words, then a line: the file is in
\* the once-set and the line is the output
C20_Witness ==
    /\ status = "ok"
    /\ stack[1].input =
           <<"#">> \o PRAGMA \o EmptyComment \o ONCE \o <<NL, "a">>
    /\ skip_includes = {no_file}
    /\ join_sources(result) = <<NL, "a">>

\* the character at p of a text is escaped: a backslash that is not
\* escaped itself stands before it
RECURSIVE Escaped(_, _)
Escaped(text, p) ==
    p > 1 /\ text[p - 1] = BACKSLASH /\ ~Escaped(text, p - 1)

\* a text without its backslashes and the characters behind them
RECURSIVE Unescape(_)
Unescape(text) ==
    IF text = <<>> THEN <<>>
    ELSE IF Head(text) = BACKSLASH
    THEN IF Len(text) = 1 THEN <<>> ELSE Unescape(Tail(Tail(text)))
    ELSE <<Head(text)>> \o Unescape(Tail(text))

\* the places of a body where the read of a path ends: the unescaped
\* closing delimiters and newlines
PathStops(body, right_delim) ==
    {p \in 1..Len(body) :
        body[p] \in {right_delim, NL} /\ ~Escaped(body, p)}

PathStop(body, right_delim) ==
    CHOOSE p \in PathStops(body, right_delim) :
        \A q \in PathStops(body, right_delim) : p <= q

RightDelim(left_delim) == IF left_delim = "<" THEN ">" ELSE "\""

\* C21: of a text that opens with #include and a delimiter, the path
\* handed to include_child is the text up to the first unescaped closing
\* delimiter without its backslashes and the characters behind them; an
\* unescaped newline before the closing delimiter is a ParseError and no
\* include_child call.
C21_IncludePathReading ==
    \A left_delim \in {"<", "\""} :
        LET input == stack[1].input
            n == Len(IncludeOpen(left_delim))
            body == SubSeq(input, n + 1, Len(input))
            right_delim == RightDelim(left_delim)
            stop == PathStop(body, right_delim)
        IN  (/\ Len(input) >= n
             /\ SubSeq(input, 1, n) = IncludeOpen(left_delim)
             /\ PathStops(body, right_delim) # {})
            => IF body[stop] = right_delim
               THEN /\ calls # <<>>
                       => /\ calls[1].op = "include_child"
                          /\ calls[1].path = Unescape(SubSeq(body, 1, stop - 1))
                    /\ status \in {"ok", "err"} => calls # <<>>
                    /\ error.kind # "ParseError"
               ELSE /\ calls = <<>>
                    /\ status # "ok"
                    /\ status = "err"
                       => /\ error.kind = "ParseError"
                          /\ error.line = 1

\* #include <a\<newline>a> hands the path aa to include_child
C21_Witness ==
    /\ status = "ok"
    /\ stack[1].input = IncludeOpen("<") \o <<"a", BACKSLASH, NL, "a", ">">>
    /\ calls # <<>>
    /\ calls[1].op = "include_child"
    /\ calls[1].path = <<"a", "a">>

\* a match of either form at p of the compiler's log
VendorMatch(log, p) ==
    IF INTEL_AMD_ERROR_RE(log, p).some THEN INTEL_AMD_ERROR_RE(log, p)
    ELSE NV_ERROR_RE(log, p)

\* every match in the log names a chunk of the list and a line
MatchesInRange(log, chunks) ==
    \A p \in DOMAIN log :
        VendorMatch(log, p).some
        => /\ VendorMatch(log, p).c1 \in {<<"1">>, <<"2">>, <<"3">>, <<"4">>}
           /\ DigitValue(VendorMatch(log, p).c1[1]) \in DOMAIN chunks
           /\ VendorMatch(log, p).c2 = <<"7">>

\* the log with every match replaced by file(l + line_offset) of the chunk
\* the match names
RECURSIVE Remapped(_, _, _)
Remapped(log, p, chunks) ==
    IF p > Len(log) THEN <<>>
    ELSE IF VendorMatch(log, p).some
    THEN LET m == VendorMatch(log, p)
             chunk == chunks[DigitValue(m.c1[1])]
         IN  chunk.file \o <<"(">> \o to_string(7 + chunk.line_offset)
                \o <<")">> \o Remapped(log, m.end, chunks)
    ELSE <<log[p]>> \o Remapped(log, p + 1, chunks)

\* C22: when every match of the compiler's log names a chunk, compile_shader
\* returns the log with every match replaced by file(l + line_offset) of
\* the chunk with the 1-based index the match names.
C22_DiagnosticRemapping ==
    (compiler_output.some
     /\ MatchesInRange(compiler_output.log, source_chunks))
    => /\ gl_pc # "panicked"
       /\ gl_pc = "returned"
          => /\ pretty_log.some
             /\ pretty_log.log = Remapped(compiler_output.log, 1, source_chunks)

\* C23: compile_shader does not panic, whichever index and line the log's
\* matches capture and however many chunks there are.
C23_RemapperNeverPanics == gl_pc # "panicked"

\* C24: the compiler gets one string per chunk, in the order of the chunks:
\* the first chunk's source as it is, and for the k-th chunk, k > 1,
\* "#line 0 k", a newline and the chunk's source; the remapper's k-th file
\* and line_offset are the k-th chunk's.
C24_SourceStrings ==
    gl_pc \notin {"idle", "compile_shader"}
    => /\ Len(sources) = Len(source_chunks)
       /\ Len(file_and_line_offset) = Len(source_chunks)
       /\ \A k \in DOMAIN source_chunks :
             /\ sources[k] =
                   IF k = 1 THEN source_chunks[k].source
                   ELSE <<"#", "l", "i", "n", "e", " ", "0", " ",
                          Numerals[k + 1], NL>> \o source_chunks[k].source
             /\ file_and_line_offset[k].file = source_chunks[k].file
             /\ file_and_line_offset[k].line_offset
                   = source_chunks[k].line_offset

\* three chunks: the third string is "#line 0 3", a newline and the source
C24_Witness ==
    /\ gl_pc = "returned"
    /\ Len(source_chunks) = 3
    /\ source_chunks[3].source = <<"b">>
    /\ sources[3] = <<"#", "l", "i", "n", "e", " ", "0", " ", "3", NL, "b">>

\* chunks is old with at most one chunk more, of the context given
EmittedBy(old, chunks, context) ==
    \/ chunks = old
    \/ /\ Len(chunks) = Len(old) + 1
       /\ SubSeq(chunks, 1, Len(old)) = old
       /\ chunks[Len(chunks)].context = context

\* C25: resolve_path gets the context of the scanner that read the
\* directive; the child scanner starts with the context resolve_path
\* returned; a chunk gets the context of the scanner that emits it, and the
\* chunks a scanner takes over from its child keep theirs, as do its own.
C25_ContextPropagation ==
    [][LET n == Len(stack)
           k == Len(calls) + 1
       IN  /\ Len(calls') > Len(calls)
              => /\ calls'[k].op = "include_child"
                 /\ calls'[k].context = Top.include_context
                 /\ Len(calls') > k
                    => /\ calls'[k + 1].op = "resolve_path"
                       /\ calls'[k + 1].path = calls'[k].path
                       /\ calls'[k + 1].context = Top.include_context
           /\ \A j \in 1..n :
                 j <= Len(stack')
                 => stack'[j].include_context = stack[j].include_context
           /\ Len(stack') > n
              => /\ stack'[n + 1].include_context
                       = resolve_path(provider, calls'[k].path,
                                      Top.include_context).context
                 /\ stack'[n + 1].chunks = <<>>
           /\ Len(stack') >= n
              => /\ EmittedBy(Top.chunks, stack'[n].chunks, Top.include_context)
                 /\ \A j \in 1..(n - 1) : stack'[j].chunks = stack[j].chunks
           /\ (Len(stack') < n /\ status' # "raising")
              => /\ EmittedBy(stack[n - 1].chunks \o Top.chunks,
                              stack'[n - 1].chunks, Top.include_context)
                 /\ \A j \in 1..(n - 2) : stack'[j].chunks = stack[j].chunks
      ]_vars

\* a file included in context c1 and text of its parent behind the
\* directive: the child's chunk has c1, the parent's chunk after it c0
C25_Witness ==
    /\ status = "ok"
    /\ \E i \in DOMAIN result :
          /\ i + 1 \in DOMAIN result
          /\ result[i].file = bar
          /\ result[i].context = "c1"
          /\ result[i + 1].file = foo
          /\ result[i + 1].context = "c0"
    /\ \E j \in DOMAIN calls :
          /\ calls[j].op = "resolve_path"
          /\ calls[j].context = "c1"

\* C26: while a crawl runs and when it has returned Ok, the in-progress set
\* holds the path of every include_child call that has a child scanner on
\* the stack, one entry each and no other, so its size is the depth of the
\* nesting; it is empty when process_file has returned Ok.
C26_StackDiscipline ==
    status \in {"running", "ok"}
    => LET n == Len(stack)
       IN  /\ prior_includes = {stack[j].path : j \in 1..(n - 1)}
           /\ Cardinality(prior_includes) = n - 1
           /\ status = "ok" => prior_includes = {}

\* process_file has returned Ok after an include_child call that found
\* two calls active
C26_Witness ==
    /\ status = "ok"
    /\ prior_includes = {}
    /\ \E k \in DOMAIN calls :
          /\ calls[k].op = "include_child"
          /\ Cardinality(calls[k].prior) = 2

\* the newlines of a text before the place p
NewlinesBefore(text, p) ==
    Cardinality({q \in 1..(p - 1) : text[q] = NL})

\* C27: in every chunk process_file or a scan of a text returned, a
\* character copied from the input stands on the line line_offset + 1 +
\* the newlines before it in the chunk's source, whatever comments,
\* continuations and #pragma once directives the chunk's text held.
C27_LineStability ==
    status = "ok"
    => \A i \in DOMAIN result :
          \A p \in DOMAIN result[i].source :
              stack[1].chunk_char_lines[i][p] # 0
              => stack[1].chunk_char_lines[i][p]
                    = result[i].line_offset + 1
                         + NewlinesBefore(result[i].source, p)

\* C28: the cursor of every scanner yields the character at its place with
\* the line 1 + the newlines before the place (1 for the first character,
\* the line it ends for a newline), and no step moves a cursor back or
\* lowers its line; a step that pushes only the '#' of a text the
\* lookahead read further leaves the cursor right behind the '#'.
C28_LineTrackingCursor ==
    [][/\ \A j \in DOMAIN stack' :
             LET f == stack'[j]
                 x == next_item(f.input, f.input_iter)
             IN  /\ f.input_iter.pos \in 1..(Len(f.input) + 1)
                 /\ f.input_iter.line
                       = 1 + NewlinesBefore(f.input, f.input_iter.pos)
                 /\ x.some <=> f.input_iter.pos <= Len(f.input)
                 /\ x.some
                    => /\ x.c = f.input[f.input_iter.pos]
                       /\ x.line = 1 + NewlinesBefore(f.input, f.input_iter.pos)
       /\ \A j \in DOMAIN stack :
             j \in DOMAIN stack'
             => /\ stack'[j].input_iter.pos >= stack[j].input_iter.pos
                /\ stack'[j].input_iter.line >= stack[j].input_iter.line
       /\ (/\ Len(stack') = Len(stack)
           /\ Top.pc = "process_input"
           /\ Top'.current_chunk = Append(Top.current_chunk, "#"))
          => /\ Top'.input_iter.pos = Top.input_iter.pos + 1
             /\ Top'.input_iter.line = Top.input_iter.line
      ]_vars

\* a cursor on line 3 behind two newlines, one of them in a continuation
\* the lookahead of a directive read
C28_Witness ==
    /\ Len(stack) = 1
    /\ stack[1].input
          = <<"#">> \o PRAGMA \o Continuation \o stuff \o <<NL, "a">>
    /\ stack[1].input_iter.line = 3
    /\ stack[1].input_iter.pos = Len(stack[1].input)
    /\ stack[1].current_chunk
          = <<"#">> \o PRAGMA \o Continuation \o stuff \o <<NL>>

\* C29: no chunk of any scanner and no returned chunk has an empty source;
\* a crawl over files that hold nothing but directives, or nothing at all,
\* returns no chunk.
C29_NoEmptyChunk ==
    /\ \A j \in DOMAIN stack :
          \A i \in DOMAIN stack[j].chunks : stack[j].chunks[i].source # <<>>
    /\ \A i \in DOMAIN result : result[i].source # <<>>
    /\ (status = "ok" /\ provider = HashMapIncludeProvider(empty_files))
       => result = <<>>

\* process_file of foo, which is two adjacent include directives, one of
\* a file with #pragma once alone and one of an empty file, has returned
C29_Witness ==
    /\ status = "ok"
    /\ provider = HashMapIncludeProvider(empty_files)
    /\ file_path = foo
    /\ result = <<>>
    /\ skip_includes = {bar}
    /\ \E k \in DOMAIN calls :
          calls[k].op = "get_include" /\ calls[k].path = baz

\* C30: no step takes an entry out of the once-set; a step that adds one
\* is the end of a #pragma once directive and adds the file of the scanner
\* that read it; every include_child call finds the set as it is then, with
\* all the entries added so far whichever scanner added them, and a call
\* that comes to the test of the set with a path in it returns Ok without
\* get_include and without a child scanner.
C30_OnceSetOnlyGrows ==
    [][LET k == Len(calls) + 1
       IN  /\ skip_includes \subseteq skip_includes'
           /\ skip_includes' # skip_includes
              => /\ Running
                 /\ Top.pc = "skip_ws_once"
                 /\ skip_includes' \ skip_includes = {Top.this_file}
                 /\ calls' = calls
           /\ Len(calls') > Len(calls)
              => /\ calls'[k].skip = skip_includes
                 /\ \A i \in DOMAIN calls :
                       calls[i].op = "include_child"
                       => calls[i].skip \subseteq calls'[k].skip
                 /\ LET child == resolve_path(provider, calls'[k].path,
                                              Top.include_context)
                    IN  (/\ calls'[k].path \notin prior_includes
                         /\ child.ok
                         /\ child.resolved_path \in skip_includes)
                        => /\ calls'[k].ret = "Ok"
                           /\ Len(calls') = k + 1
                           /\ Len(stack') = Len(stack)
                           /\ status' # "raising"
      ]_vars

\* an include_child call has returned Ok for a file that is in the
\* once-set and is not being expanded: another branch of the tree put it
\* there
C30_Witness ==
    \E k \in DOMAIN calls :
        /\ calls[k].op = "include_child"
        /\ calls[k].ret = "Ok"
        /\ calls[k].skip # {}
        /\ calls[k].path \in calls[k].skip
        /\ calls[k].path \notin calls[k].expanding
        /\ calls[k].from \notin calls[k].skip
        /\ provider = HashMapIncludeProvider(pragma_once_files)

\* what a text behind an include directive leaves in the output: the text
\* without its line comment
PostOut(post) ==
    IF post = <<"/", "/", NL>> THEN <<NL>>
    ELSE IF post = <<"/", "/", "x", NL, "b">> THEN <<NL, "b">>
    ELSE post

\* the chunks of a text, an include directive of foo and a text: the first
\* text, the text of foo, and the rest of the directive's line and what
\* follows it
IncludeChunks(pre, post) ==
    (IF pre = <<>> THEN <<>> ELSE <<SourceChunk(no_file, 0, pre, "c0")>>)
    \o <<SourceChunk(foo, 0, <<"[">> \o foo \o <<"]">>, "c0")>>
    \o (IF post = <<>> THEN <<>>
        ELSE <<SourceChunk(no_file, IF pre = <<"a", NL>> THEN 1 ELSE 0,
                           PostOut(post), "c0")>>)

IncludeTextsOut ==
    {<<pre \o form \o post, IncludeChunks(pre, post)>> :
        pre \in IncludePres, form \in IncludeForms, post \in IncludePosts}

\* C31: an include_child call of a directive that does not fail closes the
\* scanner's pending text off as a chunk and leaves its cursor right behind
\* the closing delimiter, and a child scanner starts without chunks; a text
\* made of a text, an include directive and a text gives the first text,
\* the child's chunks, and the rest of the directive's line from the
\* closing delimiter on, and nothing of the directive.
C31_IncludeLeavesNoText ==
    [][LET n == Len(stack)
           k == Len(calls) + 1
       IN  /\ (/\ Top.pc = "skip_ws_include"
               /\ Len(calls') > Len(calls)
               /\ calls'[k].ret \in {"Ok", "Scan"})
              => /\ stack'[n].current_chunk = <<>>
                 /\ stack'[n].chunks =
                       IF Top.current_chunk = <<>> THEN Top.chunks
                       ELSE Append(Top.chunks,
                                   SourceChunk(Top.this_file,
                                               Top.current_chunk_first_line - 1,
                                               Top.current_chunk,
                                               Top.include_context))
                 /\ stack'[n].input_iter.pos > 1
                 /\ Top.input[stack'[n].input_iter.pos - 1] \in {">", "\""}
                 /\ ~Escaped(Top.input, stack'[n].input_iter.pos - 1)
                 /\ Len(stack') > n => stack'[n + 1].chunks = <<>>
           /\ \A t \in IncludeTextsOut :
                 (status' = "ok" /\ provider = DummyIncludeProvider
                  /\ stack'[1].input = t[1])
                 => result' = t[2]
      ]_vars

\* a #include <foo>//<newline> has returned the text of foo and a newline
C31_Witness ==
    /\ status = "ok"
    /\ provider = DummyIncludeProvider
    /\ stack[1].input = include_directive(foo) \o <<"/", "/", NL>>
    /\ result = <<SourceChunk(foo, 0, <<"[">> \o foo \o <<"]">>, "c0"),
                  SourceChunk(no_file, 0, <<NL>>, "c0")>>

\* the log has no reference of the form <i>(<l>) at the start of a line
NoNvReference(log) == \A p \in DOMAIN log : ~NV_ERROR_RE(log, p).some

\* the log has no reference of either form
NoReference(log) == \A p \in DOMAIN log : ~VendorMatch(log, p).some

\* C32: the pass for <i>(<l>) rewrites nothing in a log that came from the
\* compiler without such a reference, whatever the pass for ERROR: <i>:<l>
\* wrote into it and whatever the chunks' file names are; a log without a
\* reference of either form is returned as it came.
C32_RewrittenOnce ==
    [][/\ (gl_pc = "replace_nv" /\ NoNvReference(compiler_output.log))
          => /\ gl_pc' = "returned"
             /\ pretty_log'.some
             /\ pretty_log'.log = log_str
       /\ (gl_pc' = "returned" /\ compiler_output'.some
           /\ NoReference(compiler_output'.log))
          => /\ pretty_log'.some
             /\ pretty_log'.log = compiler_output'.log
      ]_vars

====
